---- MODULE Spec2Model ----
(***************************************************************************)
(* ChunkedUploader (Thy3634/chunked-uploader): the upload orchestration    *)
(* engine.  The model follows the requester-based class                    *)
(* (src/unnamed/part_005, lines 366-666), the one the test suite in        *)
(* src/test/index.test.ts drives (requester, digest, limit).               *)
(*                                                                         *)
(* JavaScript runs each handler to completion, so one action is one        *)
(* synchronous stretch of code: the body of a public method up to its      *)
(* first await, the continuation of one awaited requester call, the        *)
(* continuation of the awaited Promise.all of one round, or one task       *)
(* start of the p-limit limiter (p-limit 6 starts a task in a microtask,   *)
(* never inside limit(fn) itself).  Event listeners run synchronously      *)
(* inside dispatchEvent and may call any public method, so the public      *)
(* operations interleave freely with the continuations.                    *)
(***************************************************************************)
EXTENDS Integers, Sequences, FiniteSets, TLC

\* ------------------------------------------------------------------ bounds
MaxSize == 2
MaxChunkSize == 2
MaxLimit == 1
MaxRounds == 2
MaxPlanSize == 5
MaxPlanChunkSize == 3

\* options.limit default: no concurrency limit (Number.isFinite is false)
Infinity == 99

\* the number 0 / 0 evaluates to
NaN == -99

VARIABLES
    chunks,     \* #chunks: sequence of [index, start, end, status, response]
    total,      \* #total
    loaded,     \* #loaded
    status,     \* #status
    error,      \* #error: "undefined", "OfflineError" or "TransportError"
    onLine,     \* #onLine
    limit,      \* options.limit
    aborted,    \* options.abortController.signal.aborted
    listening,  \* the online/offline listeners are attached to the host
    rounds,     \* executions of #uploadChunks that reached Promise.all
    emitted,    \* events dispatched by the last step, in dispatch order
    lastCall,   \* the last step: operation, synchronous result, status before
    stored,     \* the value the last store() call is building
    size,       \* fileInfo.size
    chunkSize,  \* options.chunkSize
    begun,      \* history: for each round, the chunks success when it began
    hashing,    \* the digest computations the constructor started
    outcome,    \* how the transport answers the call for each chunk
    restored    \* the instance was constructed from a value store() returned

vars == <<chunks, total, loaded, status, error, onLine, limit, aborted,
          listening, rounds, emitted, lastCall, stored, size, chunkSize,
          begun, hashing, outcome, restored>>

\* ------------------------------------------------------------ pure helpers
Min(a, b) == IF a < b THEN a ELSE b

\* Math.ceil(size / chunkSize)
CeilDiv(sz, cs) == (sz + cs - 1) \div cs

IsFinite(l) == l # Infinity

\* a variant of the chunk planning whose ranges are not clamped to the size
PlanChunks_NoClamp(sz, cs) ==
    [k \in 1..CeilDiv(sz, cs) |->
        [index    |-> k - 1,
         start    |-> (k - 1) * cs,
         end      |-> (k - 1) * cs + cs,
         status   |-> "idle",
         response |-> "undefined"]]

\* the constructor's chunk planning for a File
PlanChunks(sz, cs) ==
    [k \in 1..CeilDiv(sz, cs) |->
        [index    |-> k - 1,
         start    |-> (k - 1) * cs,
         end      |-> Min((k - 1) * cs + cs, sz),
         status   |-> "idle",
         response |-> "undefined"]]

\* Math.ceil(size / chunkSize) as JavaScript evaluates it for any integers
JsCeilDiv(sz, cs) ==
    IF cs > 0 THEN CeilDiv(sz, cs)
    ELSE IF cs < 0 THEN 0 - (sz \div (0 - cs))
    ELSE IF sz = 0 THEN NaN
    ELSE Infinity

\* new ChunkedUploader(file, requester, {chunkSize}) for a File: what it
\* throws and the #total and #chunks of the instance. Array.from throws a
\* RangeError for the length Infinity and builds an empty array for a
\* length that is negative or NaN.
constructor(sz, cs) ==
    LET n == JsCeilDiv(sz, cs)
    IN IF n = Infinity
       THEN [thrown |-> "RangeError", total |-> n, chunks |-> <<>>]
       ELSE IF n = NaN \/ n <= 0
       THEN [thrown |-> "none", total |-> n, chunks |-> <<>>]
       ELSE [thrown |-> "none", total |-> n, chunks |-> PlanChunks(sz, cs)]

\* chunks.filter(chunk => chunk.status === 'success').length
CountSuccess(chs) == Cardinality({k \in DOMAIN chs : chs[k].status = "success"})

\* store(): pending becomes idle, success stays success
Store(chs) ==
    [k \in DOMAIN chs |->
        [chs[k] EXCEPT !.status = IF @ = "success" THEN "success" ELSE "idle"]]

\* the values a stored snapshot of a planned layout can hold
Snapshots(sz, cs) ==
    LET plan == PlanChunks(sz, cs)
    IN { Store([k \in DOMAIN plan |-> [plan[k] EXCEPT !.status = st[k]]]) :
            st \in [DOMAIN plan -> {"idle", "pending", "success"}] }

\* the digest promises the constructor creates for chs: one per chunk and
\* #digest for the whole payload, all waiting for their hasher; updates are
\* the chunk indexes passed to the whole-payload hasher, active the updates
\* of that hasher that have not completed, hashLoaded is #hashLoaded
NewHashing(chs) ==
    [chunk      |-> [k \in DOMAIN chs |-> "waiting"],
     whole      |-> "waiting",
     updates    |-> <<>>,
     active     |-> 0,
     hashLoaded |-> 0]

\* --------------------------------------------------- the uploader as a value
this ==
    [chunks |-> chunks, total |-> total, loaded |-> loaded, status |-> status,
     error |-> error, onLine |-> onLine, limit |-> limit, aborted |-> aborted,
     listening |-> listening, rounds |-> rounds, emitted |-> <<>>]

Commit(u) ==
    /\ chunks' = u.chunks
    /\ total' = u.total
    /\ loaded' = u.loaded
    /\ status' = u.status
    /\ error' = u.error
    /\ onLine' = u.onLine
    /\ limit' = u.limit
    /\ aborted' = u.aborted
    /\ listening' = u.listening
    /\ rounds' = u.rounds
    /\ emitted' = u.emitted
    /\ UNCHANGED <<size, chunkSize, hashing, outcome, restored>>

Called(op, ret) ==
    /\ lastCall' = [op |-> op, ret |-> ret, from |-> status]
    /\ UNCHANGED <<stored, begun>>

dispatchEventByType(u, type) == [u EXCEPT !.emitted = Append(@, type)]

\* the value the requester returns to the call that round r makes
Response(r) == "response" \o ToString(r)

\* #uploadChunk(chunk) up to its await, for task k of round r; values[k] is
\* what the task returns
uploadChunk(u, r, k) ==
    IF u.chunks[k].status = "success"
    THEN dispatchEventByType(
            [u EXCEPT !.loaded = @ + 1, !.rounds[r].tasks[k] = "ok",
                      !.rounds[r].values[k] = u.chunks[k].response],
            "progress")
    ELSE [u EXCEPT !.chunks[k].status = "pending",
                   !.rounds[r].tasks[k] = "inflight"]

\* this.#chunks.map(chunk => this.#uploadChunk(chunk)): chunks k..n in order
RECURSIVE mapUploadChunk(_, _, _)
mapUploadChunk(u, r, k) ==
    IF k > Len(u.chunks) THEN u
    ELSE mapUploadChunk(uploadChunk(u, r, k), r, k + 1)

\* a variant of #uploadChunks that does not look at onLine
uploadChunks_NoOfflineCheck(u, kind) ==
    LET u1 == [u EXCEPT
                 !.status = "pending",
                 !.rounds = Append(@,
                     [kind   |-> kind,
                      tasks  |-> [k \in 1..Len(u.chunks) |-> "queued"],
                      values |-> [k \in 1..Len(u.chunks) |-> "none"],
                      result |-> "pending"])]
    IN [u   |-> IF IsFinite(u.limit) THEN u1
                ELSE mapUploadChunk(u1, Len(u1.rounds), 1),
        ret |-> "promise"]

\* #uploadChunks() up to its await
uploadChunks(u, kind) ==
    IF u.onLine = FALSE
    THEN [u   |-> dispatchEventByType(
                    [u EXCEPT !.error = "OfflineError", !.status = "paused"],
                    "pause"),
          ret |-> "undefined"]
    ELSE LET u1 == [u EXCEPT
                      !.status = "pending",
                      !.rounds = Append(@,
                          [kind   |-> kind,
                           tasks  |-> [k \in 1..Len(u.chunks) |-> "queued"],
                           values |-> [k \in 1..Len(u.chunks) |-> "none"],
                           result |-> "pending"])]
         IN [u   |-> IF IsFinite(u.limit) THEN u1
                     ELSE mapUploadChunk(u1, Len(u1.rounds), 1),
             ret |-> "promise"]

\* a variant of start() that pre-seeds the skip indexes before its guard
start_SeedBeforeGuard(u, skipIndexes) ==
    LET seeded == [u EXCEPT !.chunks =
                     [k \in DOMAIN u.chunks |->
                         IF u.chunks[k].index \in skipIndexes
                         THEN [u.chunks[k] EXCEPT !.status = "success"]
                         ELSE u.chunks[k]]]
    IN IF u.status # "idle" THEN [u |-> seeded, ret |-> "undefined"]
       ELSE uploadChunks(seeded, "start")

\* start(skipIndexes)
start(u, skipIndexes) ==
    IF u.status # "idle" THEN [u |-> u, ret |-> "undefined"]
    ELSE uploadChunks(
            [u EXCEPT !.chunks =
                [k \in DOMAIN u.chunks |->
                    IF u.chunks[k].index \in skipIndexes
                    THEN [u.chunks[k] EXCEPT !.status = "success"]
                    ELSE u.chunks[k]]],
            "start")

\* a variant of abort() that does what its doc comment says: status 'error'
abort_SetsError(u) ==
    IF u.status # "pending" THEN [u |-> u, ret |-> "false"]
    ELSE [u |-> [u EXCEPT !.aborted = TRUE, !.listening = FALSE,
                          !.status = "error", !.error = "AbortError"],
          ret |-> "true"]

\* abort()
abort(u) ==
    IF u.status # "pending" THEN [u |-> u, ret |-> "false"]
    ELSE [u |-> [u EXCEPT !.aborted = TRUE, !.listening = FALSE],
          ret |-> "true"]

\* a variant of pause() guarded by "not already paused"
pause_WeakGuard(u) ==
    IF u.status \in {"paused", "idle"} THEN [u |-> u, ret |-> "false"]
    ELSE [u   |-> dispatchEventByType(abort([u EXCEPT !.status = "paused"]).u,
                                      "pause"),
          ret |-> "true"]

\* a variant of pause() that returns what its call of abort() returns
pause_ReturnsAbort(u) ==
    IF u.status # "pending" THEN [u |-> u, ret |-> "false"]
    ELSE LET a == abort([u EXCEPT !.status = "paused"])
         IN [u |-> dispatchEventByType(a.u, "pause"), ret |-> a.ret]

\* a variant of pause() that calls abort() before it assigns the status
pause_AbortsFirst(u) ==
    IF u.status # "pending" THEN [u |-> u, ret |-> "false"]
    ELSE [u   |-> dispatchEventByType([abort(u).u EXCEPT !.status = "paused"],
                                      "pause"),
          ret |-> "true"]

\* pause()
pause(u) ==
    IF u.status # "pending" THEN [u |-> u, ret |-> "false"]
    ELSE [u   |-> dispatchEventByType(abort([u EXCEPT !.status = "paused"]).u,
                                      "pause"),
          ret |-> "true"]

\* a variant of resume() that keeps the stored error
resume_KeepError(u) ==
    IF u.status # "paused" THEN [u |-> u, ret |-> "false"]
    ELSE uploadChunks(dispatchEventByType(u, "resume"), "resume")

\* resume()
resume(u) ==
    IF u.status # "paused" THEN [u |-> u, ret |-> "false"]
    ELSE uploadChunks(
            dispatchEventByType([u EXCEPT !.error = "undefined"], "resume"),
            "resume")

\* a variant of the onLine setter that only pauses
setOnLine_NoResume(u, value) ==
    LET u1 == [u EXCEPT !.onLine = value]
    IN IF ~value /\ u1.status = "pending" THEN pause(u1).u
       ELSE u1

\* a variant of the onLine setter that pauses whatever the status is
setOnLine_AlwaysPauses(u, value) ==
    LET u1 == [u EXCEPT !.onLine = value]
    IN IF value /\ u1.status = "paused" THEN resume(u1).u
       ELSE IF ~value
            THEN dispatchEventByType([u1 EXCEPT !.status = "paused"], "pause")
       ELSE u1

\* set onLine(value)
setOnLine(u, value) ==
    LET u1 == [u EXCEPT !.onLine = value]
    IN IF value /\ u1.status = "paused" THEN resume(u1).u
       ELSE IF ~value /\ u1.status = "pending" THEN pause(u1).u
       ELSE u1

\* ------------------------------------------------------------------- Init
Init ==
    /\ size \in 0..MaxSize
    /\ chunkSize \in 1..MaxChunkSize
    /\ chunks \in Snapshots(size, chunkSize)
    /\ total = Len(chunks)
    /\ loaded = CountSuccess(chunks)
    /\ status = "idle"
    /\ error = "undefined"
    /\ onLine \in BOOLEAN
    /\ limit \in (1..MaxLimit) \cup {Infinity}
    /\ aborted = FALSE
    /\ listening = TRUE
    /\ rounds = <<>>
    /\ emitted = <<>>
    /\ lastCall = [op |-> "new", ret |-> "none", from |-> "idle"]
    /\ stored = [called |-> FALSE, spread |-> <<>>, chunks |-> <<>>, built |-> {}]
    /\ begun = <<>>
    /\ hashing = NewHashing(chunks)
    /\ outcome = <<>>
    /\ restored = FALSE

\* ---------------------------------------------------------------- actions
Start(skipIndexes) ==
    LET c == start(this, skipIndexes)
    IN /\ Len(c.u.rounds) <= MaxRounds
       /\ Commit(c.u)
       /\ Called("start", c.ret)

Pause ==
    LET c == pause(this)
    IN Commit(c.u) /\ Called("pause", c.ret)

Resume ==
    LET c == resume(this)
    IN /\ Len(c.u.rounds) <= MaxRounds
       /\ Commit(c.u)
       /\ Called("resume", c.ret)

Abort ==
    LET c == abort(this)
    IN Commit(c.u) /\ Called("abort", c.ret)

SetOnLine(value) ==
    LET u == setOnLine(this, value)
    IN /\ Len(u.rounds) <= MaxRounds
       /\ Commit(u)
       /\ Called("onLine", IF value THEN "true" ELSE "false")

\* #ononline / #onoffline, while the listeners are attached
HostNotification(value) ==
    /\ listening
    /\ LET u == setOnLine(this, value)
       IN /\ Len(u.rounds) <= MaxRounds
          /\ Commit(u)
          /\ Called("onLine", IF value THEN "true" ELSE "false")

\* destroy()
Destroy ==
    /\ Commit([this EXCEPT !.listening = FALSE])
    /\ Called("destroy", "none")

\* a variant in which a task that finds its chunk success counts nothing
LimitAdmit_Uncounted(r) ==
    /\ IsFinite(limit)
    /\ LET tasks == rounds[r].tasks
           queued == {k \in DOMAIN tasks : tasks[k] = "queued"}
           active == {k \in DOMAIN tasks : tasks[k] = "inflight"}
       IN /\ queued # {}
          /\ Cardinality(active) < limit
          /\ LET k == CHOOSE q \in queued : \A o \in queued : q <= o
             IN IF chunks[k].status = "success"
                THEN Commit([this EXCEPT !.rounds[r].tasks[k] = "ok",
                                         !.rounds[r].values[k] =
                                              chunks[k].response])
                ELSE Commit(uploadChunk(this, r, k))
    /\ Called("none", "none")

\* p-limit starts the next queued task of round r when a slot is free
LimitAdmit(r) ==
    /\ IsFinite(limit)
    /\ LET tasks == rounds[r].tasks
           queued == {k \in DOMAIN tasks : tasks[k] = "queued"}
           active == {k \in DOMAIN tasks : tasks[k] = "inflight"}
       IN /\ queued # {}
          /\ Cardinality(active) < limit
          /\ LET k == CHOOSE q \in queued : \A o \in queued : q <= o
             IN Commit(uploadChunk(this, r, k))
    /\ Called("none", "none")

\* the requester call of task k of round r resolves: #uploadChunk continues
RequesterResolve(r, k) ==
    /\ rounds[r].tasks[k] = "inflight"
    /\ Commit(dispatchEventByType(
          [this EXCEPT !.chunks[k].response = Response(r),
                       !.chunks[k].status = "success",
                       !.loaded = @ + 1,
                       !.rounds[r].tasks[k] = "ok",
                       !.rounds[r].values[k] = Response(r)],
          "progress"))
    /\ Called("none", "none")

\* a variant of the catch of #uploadChunk that only rethrows
RequesterReject_NoReset(r, k) ==
    /\ rounds[r].tasks[k] = "inflight"
    /\ Commit([this EXCEPT !.rounds[r].tasks[k] = "fail"])
    /\ Called("none", "none")

\* the requester call of task k of round r rejects: the catch of #uploadChunk
RequesterReject(r, k) ==
    /\ rounds[r].tasks[k] = "inflight"
    /\ Commit([this EXCEPT !.chunks[k].status = "idle",
                           !.rounds[r].tasks[k] = "fail"])
    /\ Called("none", "none")

\* a variant whose error path dispatches no end event
uploadChunksSettle_NoEndOnError(u, r) ==
    LET tasks == u.rounds[r].tasks
    IN IF \E k \in DOMAIN tasks : tasks[k] = "fail"
       THEN IF u.status = "paused"
            THEN [u EXCEPT !.rounds[r].result = "undefined"]
            ELSE dispatchEventByType(
                    [u EXCEPT !.error = "TransportError",
                              !.status = "error",
                              !.rounds[r].result = "undefined"],
                    "error")
       ELSE dispatchEventByType(
                dispatchEventByType(
                    [u EXCEPT !.status = "success",
                              !.rounds[r].result = "responses"],
                    "success"),
                "end")

\* a variant whose finally block dispatches end whatever the status is
uploadChunksSettle_EndAlways(u, r) ==
    LET tasks == u.rounds[r].tasks
    IN IF \E k \in DOMAIN tasks : tasks[k] = "fail"
       THEN IF u.status = "paused"
            THEN dispatchEventByType(
                    [u EXCEPT !.rounds[r].result = "undefined"], "end")
            ELSE dispatchEventByType(
                    dispatchEventByType(
                        [u EXCEPT !.error = "TransportError",
                                  !.status = "error",
                                  !.rounds[r].result = "undefined"],
                        "error"),
                    "end")
       ELSE dispatchEventByType(
                dispatchEventByType(
                    [u EXCEPT !.status = "success",
                              !.rounds[r].result = "responses"],
                    "success"),
                "end")

\* a variant whose catch block rethrows, so that the promise rejects
uploadChunksSettle_Rethrows(u, r) ==
    LET tasks == u.rounds[r].tasks
    IN IF \E k \in DOMAIN tasks : tasks[k] = "fail"
       THEN IF u.status = "paused"
            THEN [u EXCEPT !.rounds[r].result = "undefined"]
            ELSE dispatchEventByType(
                    dispatchEventByType(
                        [u EXCEPT !.error = "TransportError",
                                  !.status = "error",
                                  !.rounds[r].result = "rejected"],
                        "error"),
                    "end")
       ELSE dispatchEventByType(
                dispatchEventByType(
                    [u EXCEPT !.status = "success",
                              !.rounds[r].result = "responses"],
                    "success"),
                "end")

\* a variant whose catch block does not look at the status
uploadChunksSettle_NoPausedCheck(u, r) ==
    LET tasks == u.rounds[r].tasks
    IN IF \E k \in DOMAIN tasks : tasks[k] = "fail"
       THEN dispatchEventByType(
                dispatchEventByType(
                    [u EXCEPT !.error = "TransportError",
                              !.status = "error",
                              !.rounds[r].result = "undefined"],
                    "error"),
                "end")
       ELSE dispatchEventByType(
                dispatchEventByType(
                    [u EXCEPT !.status = "success",
                              !.rounds[r].result = "responses"],
                    "success"),
                "end")

\* #uploadChunks after its await: Promise.all of round r has settled
uploadChunksSettle(u, r) ==
    LET tasks == u.rounds[r].tasks
    IN IF \E k \in DOMAIN tasks : tasks[k] = "fail"
       THEN \* catch, then finally
            IF u.status = "paused"
            THEN [u EXCEPT !.rounds[r].result = "undefined"]
            ELSE dispatchEventByType(
                    dispatchEventByType(
                        [u EXCEPT !.error = "TransportError",
                                  !.status = "error",
                                  !.rounds[r].result = "undefined"],
                        "error"),
                    "end")
       ELSE \* the rest of the try block, then finally
            dispatchEventByType(
                dispatchEventByType(
                    [u EXCEPT !.status = "success",
                              !.rounds[r].result = "responses"],
                    "success"),
                "end")

\* a variant in which a rejection never settles the aggregate promise
RoundSettle_NeverRejects(r) ==
    /\ rounds[r].result = "pending"
    /\ \A k \in DOMAIN rounds[r].tasks : rounds[r].tasks[k] = "ok"
    /\ Commit(uploadChunksSettle(this, r))
    /\ Called("none", "none")

RoundSettle(r) ==
    /\ rounds[r].result = "pending"
    /\ LET tasks == rounds[r].tasks
       IN \/ \E k \in DOMAIN tasks : tasks[k] = "fail"
          \/ \A k \in DOMAIN tasks : tasks[k] = "ok"
    /\ Commit(uploadChunksSettle(this, r))
    /\ Called("none", "none")

\* a variant of the status property of store() that copies the status
StoredStatus_Copy(chunk) == chunk.status

\* store(): status: chunk.status === 'success' ? 'success' : 'idle'
StoredStatus(chunk) == IF chunk.status = "success" THEN "success" ELSE "idle"

\* store() up to its first await: the map callback has spread every chunk
\* ({...chunk}) and waits for the chunk's buffer
StoreCall ==
    /\ stored.called => stored.built = DOMAIN stored.chunks
    /\ stored' = [called |-> TRUE, spread |-> chunks, chunks |-> chunks,
                  built |-> {}]
    /\ Commit(this)
    /\ lastCall' = [op |-> "store", ret |-> "promise", from |-> status]
    /\ UNCHANGED begun

\* the map callback of store() for chunk k after `await chunk.buffer`: the
\* status property is evaluated now and overrides the spread one
StoreBuild(k) ==
    /\ stored.called
    /\ k \in DOMAIN stored.chunks
    /\ k \notin stored.built
    /\ stored' = [stored EXCEPT !.chunks[k].status = StoredStatus(chunks[k]),
                                !.built = @ \cup {k}]
    /\ Commit(this)
    /\ lastCall' = [op |-> "none", ret |-> "none", from |-> status]
    /\ UNCHANGED begun

Next ==
    \/ \E skipIndexes \in SUBSET (0..MaxSize) : Start(skipIndexes)
    \/ Pause
    \/ Resume
    \/ Abort
    \/ \E value \in BOOLEAN : SetOnLine(value)
    \/ \E value \in BOOLEAN : HostNotification(value)
    \/ Destroy
    \/ \E r \in DOMAIN rounds : LimitAdmit(r)
    \/ \E r \in DOMAIN rounds, k \in DOMAIN chunks : RequesterResolve(r, k)
    \/ \E r \in DOMAIN rounds, k \in DOMAIN chunks : RequesterReject(r, k)
    \/ \E r \in DOMAIN rounds : RoundSettle(r)

Spec == Init /\ [][Next]_vars

\* The hypothesis "every requester call eventually resolves successfully":
\* no requester call rejects, and the event loop runs every continuation
\* that is ready (limiter task starts, requester continuations, the
\* continuation of Promise.all).
Continue ==
    \/ \E r \in DOMAIN rounds : LimitAdmit(r)
    \/ \E r \in DOMAIN rounds, k \in DOMAIN chunks : RequesterResolve(r, k)
    \/ \E r \in DOMAIN rounds : RoundSettle(r)

NextResolving ==
    \/ \E skipIndexes \in SUBSET (0..MaxSize) : Start(skipIndexes)
    \/ Pause
    \/ Resume
    \/ Abort
    \/ \E value \in BOOLEAN : SetOnLine(value)
    \/ \E value \in BOOLEAN : HostNotification(value)
    \/ Destroy
    \/ \E r \in DOMAIN rounds : LimitAdmit(r)
    \/ \E r \in DOMAIN rounds, k \in DOMAIN chunks : RequesterResolve(r, k)
    \/ \E r \in DOMAIN rounds : RoundSettle(r)

SpecResolving == Init /\ [][NextResolving]_vars /\ WF_vars(Continue)

\* The uploader driven by start(), pause() and resume() while store() calls
\* take snapshots of it.
\* a variant of the constructor that starts counting at zero
restore_LoadedZero(file) ==
    [chunks |-> file.chunks, total |-> Len(file.chunks), loaded |-> 0]

\* the constructor given stored info instead of a File: it takes the chunks
\* as they are, counts them and counts the success ones
restore(file) ==
    [chunks |-> file.chunks,
     total  |-> Len(file.chunks),
     loaded |-> CountSuccess(file.chunks)]

\* new ChunkedUploader(await uploader.store(), requester, options): from
\* here on the state is that of the new instance
Restore ==
    /\ ~restored
    /\ stored.called
    /\ stored.built = DOMAIN stored.chunks
    /\ LET c == restore([chunks |-> stored.chunks])
       IN /\ chunks' = c.chunks
          /\ total' = c.total
          /\ loaded' = c.loaded
          /\ hashing' = NewHashing(c.chunks)
    /\ status' = "idle"
    /\ error' = "undefined"
    /\ onLine' \in BOOLEAN
    /\ aborted' = FALSE
    /\ listening' = TRUE
    /\ rounds' = <<>>
    /\ emitted' = <<>>
    /\ lastCall' = [op |-> "new", ret |-> "none", from |-> "idle"]
    /\ stored' = [called |-> FALSE, spread |-> <<>>, chunks |-> <<>>,
                  built |-> {}]
    /\ restored' = TRUE
    /\ UNCHANGED <<limit, size, chunkSize, begun, outcome>>

NextStore ==
    \/ \E skipIndexes \in SUBSET (0..MaxSize) : Start(skipIndexes)
    \/ Pause
    \/ Resume
    \/ \E r \in DOMAIN rounds : LimitAdmit(r)
    \/ \E r \in DOMAIN rounds, k \in DOMAIN chunks : RequesterResolve(r, k)
    \/ \E r \in DOMAIN rounds, k \in DOMAIN chunks : RequesterReject(r, k)
    \/ \E r \in DOMAIN rounds : RoundSettle(r)
    \/ StoreCall
    \/ \E k \in DOMAIN chunks : StoreBuild(k)

SpecStore == Init /\ [][NextStore]_vars

\* An uploader that runs, is stored, and is constructed again from the
\* stored value; the new instance is stored and run in turn.
NextRestore ==
    \/ \E skipIndexes \in SUBSET (0..MaxSize) : Start(skipIndexes)
    \/ \E r \in DOMAIN rounds : LimitAdmit(r)
    \/ \E r \in DOMAIN rounds, k \in DOMAIN chunks : RequesterResolve(r, k)
    \/ \E r \in DOMAIN rounds, k \in DOMAIN chunks : RequesterReject(r, k)
    \/ \E r \in DOMAIN rounds : RoundSettle(r)
    \/ StoreCall
    \/ \E k \in DOMAIN chunks : StoreBuild(k)
    \/ Restore

SpecRestore == Init /\ [][NextRestore]_vars

\* begun after a call that left the uploader as u: a round that began is
\* recorded with the chunks that were success at that moment (starting a
\* round leaves every success chunk success)
Begun(u) ==
    IF Len(u.rounds) > Len(rounds)
    THEN Append(begun, {k \in DOMAIN u.chunks : u.chunks[k].status = "success"})
    ELSE begun

\* start(skipIndexes), recording the round it begins
StartTracked(skipIndexes) ==
    LET c == start(this, skipIndexes)
    IN /\ Len(c.u.rounds) <= MaxRounds + 1
       /\ Commit(c.u)
       /\ lastCall' = [op |-> "start", ret |-> c.ret, from |-> status]
       /\ begun' = Begun(c.u)
       /\ UNCHANGED stored

\* resume(), recording the round it begins
ResumeTracked ==
    LET c == resume(this)
    IN /\ Len(c.u.rounds) <= MaxRounds + 1
       /\ Commit(c.u)
       /\ lastCall' = [op |-> "resume", ret |-> c.ret, from |-> status]
       /\ begun' = Begun(c.u)
       /\ UNCHANGED stored

\* The uploader driven by start(), pause() and resume() through one round
\* more than MaxRounds, with the history of what each round found.
NextRounds ==
    \/ \E skipIndexes \in SUBSET (0..MaxSize) : StartTracked(skipIndexes)
    \/ Pause
    \/ ResumeTracked
    \/ \E r \in DOMAIN rounds : LimitAdmit(r)
    \/ \E r \in DOMAIN rounds, k \in DOMAIN chunks : RequesterResolve(r, k)
    \/ \E r \in DOMAIN rounds, k \in DOMAIN chunks : RequesterReject(r, k)
    \/ \E r \in DOMAIN rounds : RoundSettle(r)

SpecRounds == Init /\ [][NextRounds]_vars

\* --------------------------------------------------------- digest engine
HashingStep(h) ==
    /\ hashing' = h
    /\ UNCHANGED <<chunks, total, loaded, status, error, onLine, limit,
                   aborted, listening, rounds, stored, size, chunkSize,
                   begun, outcome, restored>>
    /\ emitted' = <<>>
    /\ lastCall' = [op |-> "none", ret |-> "none", from |-> status]

\* chunk.digest: the then callback runs with the chunk's own hasher (the
\* hashers are created asynchronously, so the callbacks run in any order)
ChunkDigestBegin(k) ==
    /\ hashing.chunk[k] = "waiting"
    /\ HashingStep([hashing EXCEPT !.chunk[k] = "running"])

\* chunk.digest: init, update and digest of the chunk's hasher are done
ChunkDigestEnd(k) ==
    /\ hashing.chunk[k] = "running"
    /\ HashingStep([hashing EXCEPT !.chunk[k] = "done"])

\* #digest: the then callback runs with the whole-payload hasher; init
WholeDigestBegin ==
    /\ hashing.whole = "waiting"
    /\ HashingStep([hashing EXCEPT !.whole = "updating"])

\* a variant of the loop of #digest that does not await hasher.update
WholeUpdateBegin_NoAwait ==
    /\ hashing.whole = "updating"
    /\ Len(hashing.updates) < Len(chunks)
    /\ HashingStep([hashing EXCEPT
          !.updates = Append(@, chunks[Len(hashing.updates) + 1].index),
          !.active = @ + 1])

\* #digest: the loop calls hasher.update with the next chunk's bytes
WholeUpdateBegin ==
    /\ hashing.whole = "updating"
    /\ hashing.active = 0
    /\ Len(hashing.updates) < Len(chunks)
    /\ HashingStep([hashing EXCEPT
          !.updates = Append(@, chunks[Len(hashing.updates) + 1].index),
          !.active = @ + 1])

\* #digest: the awaited hasher.update completes; #hashLoaded++
WholeUpdateEnd ==
    /\ hashing.active > 0
    /\ HashingStep([hashing EXCEPT !.active = @ - 1, !.hashLoaded = @ + 1])

\* #digest: after the loop, hasher.digest()
WholeDigestEnd ==
    /\ hashing.whole = "updating"
    /\ hashing.active = 0
    /\ Len(hashing.updates) = Len(chunks)
    /\ HashingStep([hashing EXCEPT !.whole = "done"])

\* The constructor applied to a File of any size with any integer chunk
\* size, followed by one run in which every requester call resolves.
InitPlanner ==
    /\ size \in 0..MaxPlanSize
    /\ chunkSize \in (0 - MaxPlanChunkSize)..MaxPlanChunkSize
    /\ chunks = constructor(size, chunkSize).chunks
    /\ total = constructor(size, chunkSize).total
    /\ loaded = 0
    /\ status = "idle"
    /\ error = "undefined"
    /\ onLine = TRUE
    /\ limit \in (1..MaxLimit) \cup {Infinity}
    /\ aborted = FALSE
    /\ listening = TRUE
    /\ rounds = <<>>
    /\ emitted = <<>>
    /\ lastCall = [op |-> "new", ret |-> constructor(size, chunkSize).thrown,
                   from |-> "idle"]
    /\ stored = [called |-> FALSE, spread |-> <<>>, chunks |-> <<>>, built |-> {}]
    /\ begun = <<>>
    /\ hashing = NewHashing(chunks)
    /\ outcome = <<>>
    /\ restored = FALSE

\* the constructor returned an instance
Constructed == ~(lastCall.op = "new" /\ lastCall.ret # "none")

NextPlanner ==
    \/ Constructed /\ \E skipIndexes \in SUBSET (0..MaxSize) : Start(skipIndexes)
    \/ \E r \in DOMAIN rounds : LimitAdmit(r)
    \/ \E r \in DOMAIN rounds, k \in DOMAIN chunks : RequesterResolve(r, k)
    \/ \E r \in DOMAIN rounds : RoundSettle(r)

SpecPlanner == InitPlanner /\ [][NextPlanner]_vars

\* A File uploader with chunkSize >= 1 whose digests are computed while one
\* run uploads the chunks.
InitDigest == InitPlanner /\ chunkSize >= 1

NextDigest ==
    \/ \E k \in DOMAIN chunks : ChunkDigestBegin(k)
    \/ \E k \in DOMAIN chunks : ChunkDigestEnd(k)
    \/ WholeDigestBegin
    \/ WholeUpdateBegin
    \/ WholeUpdateEnd
    \/ WholeDigestEnd
    \/ Start({})
    \/ \E r \in DOMAIN rounds, k \in DOMAIN chunks : RequesterResolve(r, k)
    \/ \E r \in DOMAIN rounds : RoundSettle(r)

SpecDigest == InitDigest /\ [][NextDigest]_vars

\* The hypothesis "every requester call eventually settles": the event loop
\* runs every continuation that is ready, and every requester call in
\* flight eventually resolves or rejects.
Settle ==
    \/ \E r \in DOMAIN rounds : LimitAdmit(r)
    \/ \E r \in DOMAIN rounds, k \in DOMAIN chunks : RequesterResolve(r, k)
    \/ \E r \in DOMAIN rounds, k \in DOMAIN chunks : RequesterReject(r, k)
    \/ \E r \in DOMAIN rounds : RoundSettle(r)

\* abort(), destroy() and the host notifications are left out: they change
\* the cancellation signal and the listeners, which no continuation reads
NextSettling ==
    \/ \E skipIndexes \in SUBSET (0..MaxSize) : Start(skipIndexes)
    \/ Pause
    \/ Resume
    \/ \E value \in BOOLEAN : SetOnLine(value)
    \/ Settle

SpecSettling == Init /\ [][NextSettling]_vars /\ WF_vars(Settle)

\* One run of a File uploader against a transport whose answer to the call
\* for each chunk is fixed in advance, with and without a finite limit.
InitOutcome ==
    /\ size \in 0..MaxPlanSize
    /\ chunkSize \in 1..MaxPlanChunkSize
    /\ chunks = constructor(size, chunkSize).chunks
    /\ total = constructor(size, chunkSize).total
    /\ loaded = 0
    /\ status = "idle"
    /\ error = "undefined"
    /\ onLine = TRUE
    /\ limit \in (1..MaxLimit) \cup {Infinity}
    /\ aborted = FALSE
    /\ listening = TRUE
    /\ rounds = <<>>
    /\ emitted = <<>>
    /\ lastCall = [op |-> "new", ret |-> "none", from |-> "idle"]
    /\ stored = [called |-> FALSE, spread |-> <<>>, chunks |-> <<>>, built |-> {}]
    /\ begun = <<>>
    /\ hashing = NewHashing(chunks)
    /\ outcome \in [DOMAIN chunks -> {"resolve", "reject"}]
    /\ restored = FALSE

NextOutcome ==
    \/ \E skipIndexes \in SUBSET (0..MaxSize) : StartTracked(skipIndexes)
    \/ \E r \in DOMAIN rounds : LimitAdmit(r)
    \/ \E r \in DOMAIN rounds, k \in DOMAIN chunks :
          outcome[k] = "resolve" /\ RequesterResolve(r, k)
    \/ \E r \in DOMAIN rounds, k \in DOMAIN chunks :
          outcome[k] = "reject" /\ RequesterReject(r, k)
    \/ \E r \in DOMAIN rounds : RoundSettle(r)

SpecOutcome == InitOutcome /\ [][NextOutcome]_vars

TypeOK ==
    /\ restored \in BOOLEAN
    /\ status \in {"idle", "pending", "paused", "error", "success"}
    /\ error \in {"undefined", "OfflineError", "TransportError"}
    /\ \A k \in DOMAIN chunks : chunks[k].status \in {"idle", "pending", "success"}
    /\ Len(rounds) <= MaxRounds
\* ------------------------------------------------------ derived quantities
Index == DOMAIN chunks

\* how many times an event type occurs in a sequence of dispatched events
Count(events, type) == Cardinality({i \in DOMAIN events : events[i] = type})

\* requester calls in flight, over all rounds
InFlight ==
    {<<r, k>> \in (DOMAIN rounds) \X Index : rounds[r].tasks[k] = "inflight"}

PendingChunks == {k \in Index : chunks[k].status = "pending"}

\* executions of #uploadChunks whose Promise.all has not settled yet
ActiveRounds == {r \in DOMAIN rounds : rounds[r].result = "pending"}

\* ------------------------------------------------------------------ claims

\* C1: in every reachable state loaded equals the number of chunks whose
\* status is success, and loaded never exceeds total.
C1_LoadedCountsSuccess ==
    /\ loaded = CountSuccess(chunks)
    /\ loaded <= total

\* C2: a chunk's status only moves idle -> pending -> success or
\* idle -> pending -> idle, and once it is success it never becomes idle or
\* pending again.  (The pre-seeding of skip indexes by start(), idle ->
\* success, is the one further move the specification itself prescribes.)
C2_ChunkStatusMoves ==
    [][\A k \in Index :
          \/ chunks'[k].status = chunks[k].status
          \/ chunks[k].status = "idle" /\ chunks'[k].status = "pending"
          \/ chunks[k].status = "pending" /\ chunks'[k].status \in {"success", "idle"}
          \/ /\ chunks[k].status = "idle" /\ chunks'[k].status = "success"
             /\ lastCall'.op = "start"]_vars

\* C3: with a finite limit L, at every instant at most L requester calls are
\* in flight and at most L chunks have status pending.
C3_BoundedConcurrency ==
    IsFinite(limit) =>
        /\ Cardinality(InFlight) <= limit
        /\ Cardinality(PendingChunks) <= limit

\* C4: at most one scheduler round is active at any time on one uploader.
C4_OneActiveRound == Cardinality(ActiveRounds) <= 1
\* C5: start(skipIndexes) called when status is not idle resolves to
\* undefined, marks no chunk success, starts no round (invokes no requester),
\* dispatches no event and leaves status, chunks, loaded and error unchanged.
C5_StartNotIdleNoOp ==
    [][(lastCall'.op = "start" /\ status # "idle") =>
          /\ lastCall'.ret = "undefined"
          /\ emitted' = <<>>
          /\ UNCHANGED <<status, chunks, loaded, error, rounds, total,
                         onLine, aborted, listening>>]_vars

C5_Witness ==
    /\ lastCall = [op |-> "start", ret |-> "undefined", from |-> "pending"]
    /\ \E k \in Index : chunks[k].status # "success"

\* C6: pause() called when status is not pending, and resume() called when
\* status is not paused, return false, dispatch no event and leave status,
\* error, chunks, loaded and the cancellation signal unchanged.
C6_PauseResumeNoOp ==
    [][(\/ lastCall'.op = "pause" /\ status # "pending"
        \/ lastCall'.op = "resume" /\ status # "paused") =>
          /\ lastCall'.ret = "false"
          /\ emitted' = <<>>
          /\ UNCHANGED <<status, error, chunks, loaded, aborted, rounds,
                         total, onLine, listening>>]_vars

C6_Witness ==
    /\ lastCall = [op |-> "pause", ret |-> "false", from |-> "success"]
    /\ status = "success"

\* C7: start(skipIndexes) from idle while onLine is false resolves to
\* undefined, sets status paused, dispatches a pause event, issues no
\* requester call, and changes no chunk status except that the skip-index
\* chunks become success.
C7_OfflineStartPauses ==
    [][(lastCall'.op = "start" /\ status = "idle" /\ ~onLine) =>
          \A skipIndexes \in SUBSET (0..MaxSize) :
              Start(skipIndexes) =>
                  /\ lastCall'.ret = "undefined"
                  /\ status' = "paused"
                  /\ emitted' = <<"pause">>
                  /\ rounds' = rounds
                  /\ \A k \in Index :
                        chunks'[k].status =
                            IF chunks[k].index \in skipIndexes THEN "success"
                            ELSE chunks[k].status]_vars

C7_Witness ==
    /\ lastCall = [op |-> "start", ret |-> "undefined", from |-> "idle"]
    /\ status = "paused"
    /\ ~onLine
    /\ rounds = <<>>
    /\ \E k \in Index : chunks[k].status = "idle"

\* C8: an uploader paused because start() ran while offline moves to pending
\* as soon as onLine is set to true, and, when every requester call
\* eventually resolves successfully, status eventually becomes success.
PausedByOfflineStart ==
    status = "paused" /\ error = "OfflineError" /\ rounds = <<>>

Reconnected ==
    /\ lastCall = [op |-> "onLine", ret |-> "true", from |-> "paused"]
    /\ status = "pending"

C8_ReconnectResumes ==
    /\ [][(PausedByOfflineStart /\ lastCall'.op = "onLine" /\ onLine') =>
             (status' = "pending" /\ Head(emitted') = "resume")]_vars
    /\ (Reconnected ~> status = "success")

C8_Witness ==
    /\ status = "success"
    /\ Len(rounds) = 1
    /\ rounds[1].kind = "resume"
    /\ rounds[1].result = "responses"
    /\ Len(chunks) = 2

\* C9: when start() resolves with a response list, status is success, every
\* chunk has status success, and loaded equals total.
C9_SuccessfulStart ==
    [][\A r \in DOMAIN rounds :
          (/\ rounds[r].kind = "start"
           /\ rounds[r].result = "pending"
           /\ rounds'[r].result = "responses") =>
              /\ status' = "success"
              /\ \A k \in Index : chunks'[k].status = "success"
              /\ loaded' = total']_vars

\* C10: start() from idle while online sets status pending before it
\* returns; pause() while pending sets status paused before it returns,
\* dispatches exactly one pause event and returns true.
C10_SynchronousStatus ==
    [][/\ (lastCall'.op = "start" /\ status = "idle" /\ onLine) =>
              status' = "pending"
       /\ (lastCall'.op = "pause" /\ status = "pending") =>
              /\ status' = "paused"
              /\ Count(emitted', "pause") = 1
              /\ lastCall'.ret = "true"]_vars

C10_Witness ==
    /\ lastCall = [op |-> "pause", ret |-> "true", from |-> "pending"]
    /\ status = "paused"
    /\ \E r \in DOMAIN rounds : rounds[r].kind = "start"

\* C11: a pause() that takes effect fires the shared cancellation signal:
\* after pause() has returned true the abort controller's signal is aborted.
C11_PauseFiresCancellation ==
    [][(lastCall'.op = "pause" /\ lastCall'.ret = "true") => aborted']_vars

\* C12: with a finite limit no requester invocation begins while status is
\* paused (a step that starts and ends in paused starts no requester call).
C12_NoInvocationWhilePaused ==
    [][(IsFinite(limit) /\ status = "paused" /\ status' = "paused") =>
          InFlight' \subseteq InFlight]_vars

C15_EndAccompaniesOutcome ==
    \A i \in DOMAIN emitted :
        /\ emitted[i] \in {"success", "error"} =>
              (i < Len(emitted) /\ emitted[i + 1] = "end")
        /\ emitted[i] = "end" =>
              (i > 1 /\ emitted[i - 1] \in {"success", "error"})

C15_Witness ==
    /\ emitted = <<"error", "end">>
    /\ status = "error"

\* C16: no end event is dispatched by a transition into paused (offline
\* start or resume, pause(), a rejection that arrives while paused);
\* whenever end is dispatched, status is success or error.
C16_NoEndIntoPaused ==
    Count(emitted, "end") > 0 => status \in {"success", "error"}

C16_Witness ==
    /\ status = "paused"
    /\ emitted = <<>>
    /\ \E r \in DOMAIN rounds :
          /\ rounds[r].result = "undefined"
          /\ \E k \in Index : rounds[r].tasks[k] = "fail"

\* C17: success and error are terminal: once status is success or error it
\* never changes again.
C17_TerminalStatus ==
    [][(status = "success" \/ status = "error") => (status' = status)]_vars

\* C18: whenever the transport call for a chunk rejects, that chunk's status
\* is idle afterwards.
C18_RejectedChunkIdle ==
    [][\A r \in DOMAIN rounds : \A k \in Index :
          (rounds[r].tasks[k] = "inflight" /\ rounds'[r].tasks[k] = "fail")
              => chunks'[k].status = "idle"]_vars

C18_Witness ==
    \E r \in DOMAIN rounds : \E k \in Index :
        /\ rounds[r].tasks[k] = "fail"
        /\ chunks[k].status = "idle"
        /\ status = "pending"

StoreResolved == stored.called /\ stored.built = DOMAIN stored.chunks

\* C20 as stated: in the value returned by store() every chunk is idle or
\* success, a chunk is success exactly when it was success in the uploader
\* at the time of the call (so a chunk pending at the call is idle), and the
\* value has the uploader's number of chunks, indexes and ranges.
C20_SnapshotOfCallTime ==
    StoreResolved =>
        /\ Len(stored.chunks) = Len(chunks)
        /\ \A k \in DOMAIN stored.chunks :
              /\ stored.chunks[k].status \in {"idle", "success"}
              /\ stored.chunks[k].status = "success"
                    <=> stored.spread[k].status = "success"
              /\ stored.chunks[k].index = chunks[k].index
              /\ stored.chunks[k].start = chunks[k].start
              /\ stored.chunks[k].end = chunks[k].end

\* C20 as amended: the value store() builds has the uploader's number of
\* chunks, indexes and ranges; every entry it has built is idle or success;
\* an entry is success exactly when its chunk is success in the uploader at
\* the moment the entry is built, after the chunk's buffer has been awaited,
\* which can be later than the call; a chunk pending at that moment is idle.
C20_SnapshotOfBuildTime ==
    [][stored'.called =>
          /\ Len(stored'.chunks) = Len(chunks')
          /\ \A k \in DOMAIN stored'.chunks :
                /\ stored'.chunks[k].index = chunks'[k].index
                /\ stored'.chunks[k].start = chunks'[k].start
                /\ stored'.chunks[k].end = chunks'[k].end
                /\ k \in stored'.built =>
                      stored'.chunks[k].status \in {"idle", "success"}
                /\ (k \in stored'.built /\ ~(stored.called /\ k \in stored.built))
                      => (stored'.chunks[k].status = "success"
                            <=> chunks[k].status = "success")]_vars

C20_Witness ==
    /\ StoreResolved
    /\ \E k \in DOMAIN stored.chunks :
          /\ stored.spread[k].status = "pending"
          /\ chunks[k].status = "pending"
          /\ stored.chunks[k].status = "idle"
    /\ \E k \in DOMAIN stored.chunks : stored.chunks[k].status = "success"

\* C24: a start() that takes effect (status was idle) dispatches a start
\* event, and that event comes before every other event of the run.
C24_StartEventFirst ==
    [][(lastCall'.op = "start" /\ status = "idle") =>
          /\ Count(emitted', "start") = 1
          /\ Head(emitted') = "start"]_vars

\* C26: assigning onLine changes status in exactly two cases: false while
\* status is pending acts as pause() (status paused, a pause event), true
\* while status is paused acts as resume(); in every other case only the
\* onLine flag changes and no event is dispatched.
C26_OnLineSetter ==
    [][lastCall'.op = "onLine" =>
          LET value == (lastCall'.ret = "true")
          IN /\ onLine' = value
             /\ (~value /\ status = "pending") =>
                   /\ status' = "paused"
                   /\ emitted' = <<"pause">>
                   /\ UNCHANGED <<error, chunks, loaded, rounds, total>>
             /\ (value /\ status = "paused") =>
                   /\ status' = "pending"
                   /\ error' = "undefined"
                   /\ Head(emitted') = "resume"
                   /\ Count(emitted', "pause") = 0
                   /\ Len(rounds') = Len(rounds) + 1
             /\ ~((~value /\ status = "pending") \/ (value /\ status = "paused"))
                   => /\ emitted' = <<>>
                      /\ UNCHANGED <<status, error, chunks, loaded, rounds,
                                     total, aborted, listening>>]_vars

C26_Witness ==
    /\ lastCall = [op |-> "onLine", ret |-> "false", from |-> "pending"]
    /\ status = "paused"
    /\ ~onLine
    /\ emitted = <<"pause">>
    /\ InFlight # {}

\* C27: after a run has ended with status error because a requester call
\* rejected, calling start() again begins a new attempt: a new round in
\* which the requester is invoked for the idle chunks and for no success
\* chunk.
C27_RestartAfterError ==
    [][(lastCall'.op = "start" /\ status = "error"
            /\ error = "TransportError") =>
          /\ status' = "pending"
          /\ Len(rounds') = Len(rounds) + 1
          /\ \A k \in Index :
                chunks[k].status = "success" =>
                    rounds'[Len(rounds')].tasks[k] # "inflight"]_vars

\* C29: at every instant at most one requester call is in flight for any
\* given chunk.
C29_OneCallPerChunk ==
    \A k \in Index :
        Cardinality({r \in DOMAIN rounds : rounds[r].tasks[k] = "inflight"}) <= 1

\* C30: a transport rejection that reaches #uploadChunks while status is
\* paused is swallowed: status stays paused, the error property is not set
\* to the rejection, no event is dispatched, and the promise of the round
\* resolves to undefined.
C30_RejectionWhilePausedSwallowed ==
    [][\A r \in DOMAIN rounds :
          (/\ rounds[r].result = "pending"
           /\ rounds'[r].result # "pending"
           /\ \E k \in Index : rounds[r].tasks[k] = "fail"
           /\ status = "paused") =>
              /\ status' = "paused"
              /\ error' = error
              /\ error' # "TransportError"
              /\ emitted' = <<>>
              /\ rounds'[r].result = "undefined"]_vars

C30_Witness ==
    /\ status = "paused"
    /\ lastCall = [op |-> "none", ret |-> "none", from |-> "paused"]
    /\ error # "TransportError"
    /\ emitted = <<>>
    /\ \E r \in DOMAIN rounds :
          /\ rounds[r].result = "undefined"
          /\ \E k \in Index : rounds[r].tasks[k] = "fail"
          /\ \A q \in DOMAIN rounds : q # r => rounds[q].result = "pending"

\* C22: for every size >= 1 and chunkSize >= 1 the chunks the constructor
\* builds have indexes 0..n-1 in order, chunk 0 starts at 0, each chunk ends
\* where the next starts, the last chunk ends at size, every chunk but the
\* last has length chunkSize and the last has a length in 1..chunkSize.
C22_PlannedRanges ==
    (size >= 1 /\ chunkSize >= 1) =>
        LET n == Len(chunks)
        IN /\ n >= 1
           /\ \A k \in 1..n : chunks[k].index = k - 1
           /\ chunks[1].start = 0
           /\ \A k \in 1..(n - 1) :
                 /\ chunks[k].end = chunks[k + 1].start
                 /\ chunks[k].end - chunks[k].start = chunkSize
           /\ chunks[n].end = size
           /\ chunks[n].end - chunks[n].start \in 1..chunkSize

C22_Witness ==
    /\ chunkSize >= 2
    /\ Len(chunks) >= 3
    /\ chunks[Len(chunks)].end - chunks[Len(chunks)].start < chunkSize
    /\ status = "success"

\* C23: for every size >= 0 and chunkSize >= 1 the number of chunks and
\* total both equal max(1, ceil(size / chunkSize)); a zero-byte payload has
\* exactly one chunk with the range [0, 0), and its successful run ends with
\* loaded = total = 1.
C23_AtLeastOneChunk ==
    (size >= 0 /\ chunkSize >= 1) =>
        LET n == IF CeilDiv(size, chunkSize) > 1
                 THEN CeilDiv(size, chunkSize) ELSE 1
        IN /\ Len(chunks) = n
           /\ total = n
           /\ size = 0 =>
                 /\ chunks[1].start = 0
                 /\ chunks[1].end = 0
                 /\ status = "success" => loaded = 1

\* C28: constructing an uploader with chunkSize <= 0 fails synchronously and
\* yields no uploader; no uploader exists whose total differs from its
\* number of chunks.
C28_RejectsBadChunkSize ==
    /\ chunkSize <= 0 => ~Constructed
    /\ Constructed => total = Len(chunks)

\* C25: when a round completes successfully, start() or resume() resolves
\* to a list of exactly total entries in chunk index order whose entry i is
\* the response stored on chunk i, whatever the order in which the requester
\* calls completed.
C25_OrderedResponses ==
    [][\A r \in DOMAIN rounds :
          (rounds[r].result = "pending" /\ rounds'[r].result = "responses") =>
              /\ Len(rounds'[r].values) = total
              /\ \A k \in Index :
                    rounds'[r].values[k] = chunks'[k].response]_vars

\* C21: a chunk that has status success when a round begins (from the
\* restored snapshot, from skipIndexes or from an upload before a pause)
\* never has the requester invoked for it in that round.
C21_SuccessNotUploaded ==
    [][\A r \in DOMAIN rounds' : \A k \in DOMAIN chunks :
          (/\ rounds'[r].tasks[k] = "inflight"
           /\ (r \notin DOMAIN rounds \/ rounds[r].tasks[k] # "inflight"))
              => k \notin begun'[r]]_vars

\* C31: the connectivity listeners are attached from construction on and
\* are detached exactly by an abort() that takes effect or by destroy();
\* host notifications reach the uploader only while they are attached. In
\* particular pause() leaves them attached.
C31_ListenersUntilAbortOrDestroy ==
    [][listening' =
          (/\ listening
           /\ lastCall'.op # "destroy"
           /\ ~(lastCall'.op = "abort" /\ lastCall'.ret = "true"))]_vars

C31_Witness ==
    /\ listening
    /\ lastCall = [op |-> "pause", ret |-> "true", from |-> "pending"]
    /\ status = "paused"
    /\ ~aborted

\* C34: whenever status is success, every chunk has status success and no
\* requester call is in flight.
C34_SuccessMeansAllUploaded ==
    status = "success" =>
        /\ \A k \in Index : chunks[k].status = "success"
        /\ InFlight = {}

\* C35: after an end event (status is then success or error) the uploader
\* is quiescent: no requester invocation begins, no chunk status changes,
\* loaded does not change and no progress event is dispatched.
C35_QuiescentAfterEnd ==
    [][(status = "success" \/ status = "error") =>
          /\ InFlight' \subseteq InFlight
          /\ \A k \in Index : chunks'[k].status = chunks[k].status
          /\ loaded' = loaded
          /\ Count(emitted', "progress") = 0]_vars

\* C36: on one uploader the success event is dispatched at most once and
\* the end event at most once: at most one round resolves with responses
\* (each such round dispatches success and then end).
C36_OneSuccessOneEnd ==
    Cardinality({r \in DOMAIN rounds : rounds[r].result = "responses"}) <= 1

\* C37: the error property is consistent with status: it is set whenever
\* status is error and unset whenever status is idle, pending or success.
C37_ErrorMatchesStatus ==
    /\ status = "error" => error # "undefined"
    /\ status \in {"idle", "pending", "success"} => error = "undefined"

\* the chunk-level digest computations that are running
RunningDigests == {k \in DOMAIN hashing.chunk : hashing.chunk[k] = "running"}

\* C32: the whole-payload digest comes from one hasher that receives exactly
\* one update per chunk, in increasing chunk index order, each update
\* beginning only after the previous one has completed, followed by one
\* digest call.
C32_SequentialWholeDigest ==
    /\ \A i \in DOMAIN hashing.updates : hashing.updates[i] = i - 1
    /\ Len(hashing.updates) <= Len(chunks)
    /\ hashing.active <= 1
    /\ hashing.hashLoaded + hashing.active = Len(hashing.updates)
    /\ hashing.whole = "done" =>
          (Len(hashing.updates) = Len(chunks) /\ hashing.active = 0)
    /\ hashing.whole = "waiting" => hashing.updates = <<>>

C32_Witness ==
    /\ hashing.whole = "done"
    /\ hashing.updates = <<0, 1, 2>>
    /\ hashing.hashLoaded = 3

\* C33: with digest concurrency cap H, at most H chunk-level digest
\* computations are running at any instant (whatever the upload limit is).
C33_BoundedDigestConcurrency ==
    \A H \in 1..MaxLimit : Cardinality(RunningDigests) <= H

\* C38: if every requester call eventually settles then, from any state
\* with status pending, either a further public operation is called or
\* status eventually becomes success or error; and likewise either a further
\* public operation is called or eventually no chunk is pending.
C38_RoundsEnd ==
    /\ (status = "pending" /\ lastCall.op = "none")
          ~> (status \in {"success", "error"} \/ lastCall.op # "none")
    /\ (PendingChunks # {} /\ lastCall.op = "none")
          ~> (PendingChunks = {} \/ lastCall.op # "none")

C38_Witness ==
    /\ status = "error"
    /\ lastCall = [op |-> "none", ret |-> "none", from |-> "error"]
    /\ PendingChunks = {}
    /\ InFlight = {}
    /\ \A r \in DOMAIN rounds :
          /\ rounds[r].result # "pending"
          /\ \A k \in Index : rounds[r].tasks[k] \in {"ok", "fail"}
    /\ \E r \in DOMAIN rounds : \E k \in Index : rounds[r].tasks[k] = "ok"

\* the run of start() is over: its promise has settled, no requester call
\* is in flight and the limiter has started every task
Quiescent ==
    /\ Len(rounds) = 1
    /\ rounds[1].result # "pending"
    /\ \A k \in Index : rounds[1].tasks[k] \in {"ok", "fail"}

\* the requester has been invoked for chunk k by the run of start()
Invoked(k) ==
    \/ rounds[1].tasks[k] \in {"inflight", "fail"}
    \/ rounds[1].tasks[k] = "ok" /\ rounds[1].values[k] = Response(1)

\* C39 as stated: when a run ends (its end event is dispatched), a run with a
\* finite limit has invoked the requester exactly as often per chunk as the
\* run without limit, which by then has invoked it once for every chunk
\* that was not success at the start.
C39_SameResultsAtEnd ==
    Count(emitted, "end") > 0 =>
        \A k \in Index : Invoked(k) <=> k \notin begun[1]

\* C39 as amended: once the run is over and every requester call has
\* settled (which, after a rejection, is later than the end event), the
\* status, the chunk statuses, loaded and the requester invocations per
\* chunk are determined by the chunks that were success at the start and by
\* the transport outcomes alone, whatever the limit is.
C39_SameResultsWhenSettled ==
    Quiescent =>
        LET skipped == begun[1]
            failed == {k \in Index \ skipped : outcome[k] = "reject"}
        IN /\ status = IF failed = {} THEN "success" ELSE "error"
           /\ \A k \in Index :
                 /\ chunks[k].status = IF k \in failed THEN "idle" ELSE "success"
                 /\ Invoked(k) <=> k \notin skipped
           /\ loaded = Cardinality(Index \ failed)

C39_Witness ==
    /\ Quiescent
    /\ IsFinite(limit)
    /\ status = "error"
    /\ begun[1] # {}
    /\ \E k \in Index : rounds[1].tasks[k] = "fail"
    /\ \E k \in Index : rounds[1].tasks[k] = "ok" /\ Invoked(k)

\* C40: an uploader constructed from the value store() returned starts idle
\* with the original's total, chunk indexes and ranges; a chunk of it is
\* success exactly when the stored value, built from the original, says so
\* and idle otherwise; loaded is the number of its success chunks; and a
\* store() call that completes on it before start() (its status is still
\* idle and it has begun no round) returns the statuses its chunks have.
C40_StoreRestoreRoundTrip ==
    [][/\ (restored' /\ ~restored) =>
            /\ status' = "idle"
            /\ total' = total
            /\ Len(chunks') = Len(chunks)
            /\ \A k \in DOMAIN chunks' :
                  /\ chunks'[k].index = chunks[k].index
                  /\ chunks'[k].start = chunks[k].start
                  /\ chunks'[k].end = chunks[k].end
                  /\ chunks'[k].status \in {"idle", "success"}
                  /\ chunks'[k].status = "success"
                        <=> stored.chunks[k].status = "success"
            /\ loaded' = CountSuccess(chunks')
       /\ (/\ restored'
           /\ status' = "idle"
           /\ rounds' = <<>>
           /\ stored'.called
           /\ stored'.built = DOMAIN stored'.chunks) =>
             /\ Len(stored'.chunks) = Len(chunks')
             /\ \A k \in DOMAIN chunks' :
                   stored'.chunks[k].status = chunks'[k].status]_vars

C40_Witness ==
    /\ restored
    /\ rounds = <<>>
    /\ status = "idle"
    /\ StoreResolved
    /\ loaded = 1
    /\ \E k \in Index : /\ chunks[k].status = "success"
                        /\ chunks[k].response = Response(1)
                        /\ stored.chunks[k].status = "success"
    /\ \E k \in Index : /\ chunks[k].status = "idle"
                        /\ stored.chunks[k].status = "idle"
====
